---- MODULE Spec2Model ----
(***************************************************************************)
(* Strategy C of the cookbook: the consistent TokenRegistry and the        *)
(* ingestion and query pipelines built on it                               *)
(* (rag-consistent-registry-node/index.ts, src/unnamed/part_005, and the   *)
(* copy in rag-strategy-comparison-node/index.ts).                         *)
(*                                                                         *)
(* A JavaScript string is modelled as a sequence of one-character strings, *)
(* so that split/join, the bracket stripping and the token synthesis are   *)
(* computed character by character, as the code computes them.             *)
(***************************************************************************)
EXTENDS Naturals, Sequences, FiniteSets

(***************************************************************************)
(* Bounds of the model.                                                    *)
(***************************************************************************)
\* largest number of entries the registry is driven to
MaxEntries == 2
\* largest number of tickets one ingestion run is given
MaxTickets == 2
\* largest number of entities the detector reports for one ticket
MaxDetected == 2
MaxTokenLen == 4
MaxRegistered == 10
MaxTurns == 2
MaxArgs == 2

(***************************************************************************)
(* JavaScript string primitives.                                           *)
(***************************************************************************)
Digits == {"0", "1", "2", "3", "4", "5", "6", "7", "8", "9"}

DigitChar(d) ==
  CASE d = 0 -> "0" [] d = 1 -> "1" [] d = 2 -> "2" [] d = 3 -> "3"
    [] d = 4 -> "4" [] d = 5 -> "5" [] d = 6 -> "6" [] d = 7 -> "7"
    [] d = 8 -> "8" [] d = 9 -> "9"

\* `${count}`: the decimal digits of a number
RECURSIVE NumberToString(_)
NumberToString(n) ==
  IF n < 10 THEN <<DigitChar(n)>>
  ELSE NumberToString(n \div 10) \o <<DigitChar(n % 10)>>

\* s occurs in t starting at (1-based) position i
OccursAt(t, s, i) ==
  /\ i >= 1
  /\ i + Len(s) - 1 <= Len(t)
  /\ \A k \in 1..Len(s) : t[i + k - 1] = s[k]

\* t.includes(s)
Includes(t, s) == \E i \in 1..(Len(t) + 1) : OccursAt(t, s, i)

\* position of the first occurrence of s in t, 0 when there is none
FirstIndexOf(t, s) ==
  IF Includes(t, s)
  THEN CHOOSE i \in 1..(Len(t) + 1) :
         /\ OccursAt(t, s, i)
         /\ \A j \in 1..(i - 1) : ~OccursAt(t, s, j)
  ELSE 0

\* t.split("").join(rep): rep between every two characters of t
RECURSIVE JoinChars(_, _)
JoinChars(t, rep) ==
  IF Len(t) <= 1 THEN t
  ELSE <<Head(t)>> \o rep \o JoinChars(Tail(t), rep)

\* a split that keeps the pieces before each separator and loses the piece
\* after the last one (the whole text when the separator is absent)
RECURSIVE SplitJoinDropsTail(_, _, _)
SplitJoinDropsTail(t, sep, rep) ==
  IF sep = <<>> THEN JoinChars(t, rep)
  ELSE LET i == FirstIndexOf(t, sep) IN
       IF i = 0 THEN <<>>
       ELSE SubSeq(t, 1, i - 1) \o rep
              \o SplitJoinDropsTail(SubSeq(t, i + Len(sep), Len(t)), sep, rep)

\* t.split(sep).join(rep): every occurrence of sep, found left to right
\* without overlap, is replaced by rep
RECURSIVE SplitJoin(_, _, _)
SplitJoin(t, sep, rep) ==
  IF sep = <<>> THEN JoinChars(t, rep)
  ELSE LET i == FirstIndexOf(t, sep) IN
       IF i = 0 THEN t
       ELSE SubSeq(t, 1, i - 1) \o rep
              \o SplitJoin(SubSeq(t, i + Len(sep), Len(t)), sep, rep)

\* number of occurrences of s in t that split would find
RECURSIVE CountOccurrences(_, _)
CountOccurrences(t, s) ==
  LET i == FirstIndexOf(t, s) IN
  IF s = <<>> \/ i = 0 THEN 0
  ELSE 1 + CountOccurrences(SubSeq(t, i + Len(s), Len(t)), s)

(***************************************************************************)
(* A JavaScript Map: its entries <<key, value>> in insertion order.        *)
(***************************************************************************)
MapHas(m, k) == \E i \in 1..Len(m) : m[i][1] = k

MapGet(m, k) == m[CHOOSE i \in 1..Len(m) : m[i][1] = k][2]

\* Map.set: a present key keeps its place and takes the new value
MapSet(m, k, v) ==
  IF MapHas(m, k)
  THEN [i \in 1..Len(m) |-> IF m[i][1] = k THEN <<k, v>> ELSE m[i]]
  ELSE Append(m, <<k, v>>)

MapKeys(m) == {m[i][1] : i \in 1..Len(m)}

MapValues(m) == {m[i][2] : i \in 1..Len(m)}

\* [...map.entries()].sort((a, b) => b[0].length - a[0].length): a stable
\* sort, longest key first, equal lengths in insertion order
RECURSIVE InsertByLength(_, _)
InsertByLength(sorted, e) ==
  IF sorted = <<>> THEN <<e>>
  ELSE IF Len(Head(sorted)[1]) >= Len(e[1])
       THEN <<Head(sorted)>> \o InsertByLength(Tail(sorted), e)
       ELSE <<e>> \o sorted

\* the entries left in insertion order, never sorted
Unsorted(entries) == entries

RECURSIVE SortByLengthDesc(_)
SortByLengthDesc(entries) ==
  IF entries = <<>> THEN <<>>
  ELSE InsertByLength(SortByLengthDesc(SubSeq(entries, 1, Len(entries) - 1)),
                      entries[Len(entries)])

(***************************************************************************)
(* class TokenRegistry                                                     *)
(***************************************************************************)
\* brackets removed only as a pair: /^<(.*)>$/
StripBracketPair(token) ==
  IF Len(token) >= 2 /\ Head(token) = "<" /\ token[Len(token)] = ">"
  THEN SubSeq(token, 2, Len(token) - 1)
  ELSE token

\* token.replace(/^<|>$/g, ""): one leading "<" and one trailing ">" removed
StripBrackets(token) ==
  LET a == IF token # <<>> /\ Head(token) = "<" THEN Tail(token) ELSE token
  IN  IF a # <<>> /\ a[Len(a)] = ">" THEN SubSeq(a, 1, Len(a) - 1) ELSE a

\* inner.lastIndexOf("_"), 0-based, -1 when there is none: here 1-based, 0
LastUnderscore(inner) ==
  IF \E i \in 1..Len(inner) : inner[i] = "_"
  THEN CHOOSE i \in 1..Len(inner) :
         /\ inner[i] = "_"
         /\ \A j \in (i + 1)..Len(inner) : inner[j] # "_"
  ELSE 0

\* /^\d+$/.test(s)
AllDigits(s) == s # <<>> /\ \A i \in 1..Len(s) : s[i] \in Digits

\* extractEntityType with the test lastUnderscore >= 0 for lastUnderscore > 0
extractEntityTypeAnyUnderscore(token) ==
  LET inner == StripBrackets(token)
      lastUnderscore == LastUnderscore(inner)
  IN  IF lastUnderscore > 0
         /\ AllDigits(SubSeq(inner, lastUnderscore + 1, Len(inner)))
      THEN SubSeq(inner, 1, lastUnderscore - 1)
      ELSE inner

extractEntityType(token) ==
  LET inner == StripBrackets(token)
      lastUnderscore == LastUnderscore(inner)
  IN  IF lastUnderscore > 1
         /\ AllDigits(SubSeq(inner, lastUnderscore + 1, Len(inner)))
      THEN SubSeq(inner, 1, lastUnderscore - 1)
      ELSE inner

\* `<${entityType}_${count}>`
ConsistentToken(entityType, count) ==
  <<"<">> \o entityType \o <<"_">> \o NumberToString(count) \o <<">">>

\* a counter that is read but never advanced past its first number
NextCountStuck(cnt, entityType) == 1

\* one counter for all types: the largest number used so far, plus one
NextCountShared(cnt, entityType) ==
  (IF cnt = <<>> THEN 0
   ELSE CHOOSE n \in {cnt[i][2] : i \in 1..Len(cnt)} :
          \A i \in 1..Len(cnt) : cnt[i][2] <= n) + 1

\* (this.counters.get(entityType) || 0) + 1
NextCount(cnt, entityType) ==
  (IF MapHas(cnt, entityType) THEN MapGet(cnt, entityType) ELSE 0) + 1

\* getOrCreate without its early return: a known value is registered again
getOrCreateAlwaysCreates(r, realValue, blindfoldToken) ==
  LET entityType == extractEntityType(blindfoldToken)
      count == NextCount(r.counters, entityType)
      consistentToken == ConsistentToken(entityType, count)
  IN  [registry |-> MapSet(r.registry, realValue, consistentToken),
       reverse |-> MapSet(r.reverse, consistentToken, realValue),
       counters |-> MapSet(r.counters, entityType, count),
       ret |-> consistentToken]

\* getOrCreate that forgets the reverse association
getOrCreateNoReverse(r, realValue, blindfoldToken) ==
  IF MapHas(r.registry, realValue)
  THEN [registry |-> r.registry, reverse |-> r.reverse,
        counters |-> r.counters, ret |-> MapGet(r.registry, realValue)]
  ELSE LET entityType == extractEntityType(blindfoldToken)
           count == NextCount(r.counters, entityType)
           consistentToken == ConsistentToken(entityType, count)
       IN  [registry |-> MapSet(r.registry, realValue, consistentToken),
            reverse |-> r.reverse,
            counters |-> MapSet(r.counters, entityType, count),
            ret |-> consistentToken]

\* getOrCreate that computes the next number but never stores it
getOrCreateNoCounterSet(r, realValue, blindfoldToken) ==
  IF MapHas(r.registry, realValue)
  THEN [registry |-> r.registry, reverse |-> r.reverse,
        counters |-> r.counters, ret |-> MapGet(r.registry, realValue)]
  ELSE LET entityType == extractEntityType(blindfoldToken)
           count == NextCount(r.counters, entityType)
           consistentToken == ConsistentToken(entityType, count)
       IN  [registry |-> MapSet(r.registry, realValue, consistentToken),
            reverse |-> MapSet(r.reverse, consistentToken, realValue),
            counters |-> r.counters,
            ret |-> consistentToken]

\* getOrCreate that advances the counter before it looks the value up
getOrCreateCountsFirst(r, realValue, blindfoldToken) ==
  LET entityType == extractEntityType(blindfoldToken)
      count == NextCount(r.counters, entityType)
      consistentToken == ConsistentToken(entityType, count)
  IN  IF MapHas(r.registry, realValue)
      THEN [registry |-> r.registry, reverse |-> r.reverse,
            counters |-> MapSet(r.counters, entityType, count),
            ret |-> MapGet(r.registry, realValue)]
      ELSE [registry |-> MapSet(r.registry, realValue, consistentToken),
            reverse |-> MapSet(r.reverse, consistentToken, realValue),
            counters |-> MapSet(r.counters, entityType, count),
            ret |-> consistentToken]

\* getOrCreate on the registry state r = [registry, reverse, counters]:
\* the state after the call and the token returned
getOrCreate(r, realValue, blindfoldToken) ==
  IF MapHas(r.registry, realValue)
  THEN [registry |-> r.registry, reverse |-> r.reverse,
        counters |-> r.counters, ret |-> MapGet(r.registry, realValue)]
  ELSE LET entityType == extractEntityType(blindfoldToken)
           count == NextCount(r.counters, entityType)
           consistentToken == ConsistentToken(entityType, count)
       IN  [registry |-> MapSet(r.registry, realValue, consistentToken),
            reverse |-> MapSet(r.reverse, consistentToken, realValue),
            counters |-> MapSet(r.counters, entityType, count),
            ret |-> consistentToken]

\* the loop "for (const [k, v] of sorted) result = result.split(k).join(v)"
RECURSIVE SubstituteAll(_, _)
SubstituteAll(text, sorted) ==
  IF sorted = <<>> THEN text
  ELSE SubstituteAll(SplitJoin(text, Head(sorted)[1], Head(sorted)[2]),
                     Tail(sorted))

\* t.replace(sep, rep) with a string pattern: the first occurrence only
ReplaceFirst(t, sep, rep) ==
  LET i == FirstIndexOf(t, sep) IN
  IF i = 0 THEN t
  ELSE SubSeq(t, 1, i - 1) \o rep \o SubSeq(t, i + Len(sep), Len(t))

\* the loop with result.replace(k, v) in place of split(k).join(v)
RECURSIVE SubstituteFirst(_, _)
SubstituteFirst(text, sorted) ==
  IF sorted = <<>> THEN text
  ELSE SubstituteFirst(ReplaceFirst(text, Head(sorted)[1], Head(sorted)[2]),
                       Tail(sorted))

restoreTextFirstOnly(rev, text) ==
  SubstituteFirst(text, SortByLengthDesc(rev))

replaceInText(reg, text) == SubstituteAll(text, SortByLengthDesc(reg))

restoreText(rev, text) == SubstituteAll(text, SortByLengthDesc(rev))

(***************************************************************************)
(* The inputs the model draws from.  "m" stands for a first name and "md"  *)
(* for the full name containing it; "1" and "P" are real values that also  *)
(* occur inside token strings; "x" and " " are text no detector reports.   *)
(***************************************************************************)
RealValues == { <<"m">>, <<"m", "d">>, <<"1">>, <<"P">> }

\* what the detector may hand over as its provisional token: well formed
\* with differing numbers, a type containing an underscore, a type ending
\* in an underscore and a digit, and a malformed one (no brackets, no number)
DetectorTokens ==
  { <<"<", "P", "_", "1", ">">>, <<"<", "P", "_", "7", ">">>,
    <<"<", "E", "_", "A", "_", "3", ">">>,
    <<"<", "P", "_", "1", "_", "1", ">">>, <<"W">> }

\* texts handed to replaceInText
ReplaceInputs ==
  { <<>>, <<"x">>, <<"m">>, <<"m", "d">>, <<"m", "d", " ", "m">>,
    <<"m", " ", "m">>, <<"m", "d", "1">>, <<"P", "m">>,
    <<"<", "P", "_", "1", ">">> }

\* texts handed to restoreText
RestoreInputs ==
  { <<>>, <<"x">>, <<"<", "P", "_", "1", ">">>,
    <<"<", "P", "_", "2", ">", " ", "<", "P", "_", "1", ">">>,
    <<"<", "E", "_", "A", "_", "1", ">", "x">>, <<"<", "W", "_", "1", ">">> }

(***************************************************************************)
(* State.                                                                  *)
(***************************************************************************)
VARIABLES
  registry,   \* TokenRegistry.registry: real value -> token
  reverse,    \* TokenRegistry.reverse: token -> real value
  counters,   \* TokenRegistry.counters: entity type -> last number used
  call,       \* the last call made on the registry, with its result
  issued,     \* history: every <<real value, token>> getOrCreate returned
  pc,         \* where main() stands: the await it is suspended at
  tickets,    \* SUPPORT_TICKETS[0..idx]: the original texts taken up so far
  detected,   \* history: result.mapping of blindfold.tokenize, per ticket
  pending,    \* consistentText handed to collection.add, not yet stored
  collection, \* the documents of the Chroma collection, ticket-0 first
  query,      \* the locals of the running or last queryRAG call
  runs,       \* ingestTickets invocations that share the registry, each
              \* with its place, ticket, detected mapping and rewritten text
  chat,       \* CustomerSupportRAG: conversationHistory, accumulatedMapping
              \* and the locals of the running query(question) call
  chain,      \* blindfoldProtect: the mappingStore of the closure and the
              \* invocations of the chain built from it
  cli         \* the strategy comparison program: strategies, loop index,
              \* the runners called, exit status, summary printed

registryVars == <<registry, reverse, counters>>
callVars == <<call, issued>>
exampleVars == <<chat, chain, cli>>
pipelineVars == <<pc, tickets, detected, pending, collection, query, runs,
                  exampleVars>>
coreVars == <<registry, reverse, counters, call, issued,
              pc, tickets, detected, pending, collection, query, runs>>
vars == <<registry, reverse, counters, call, issued,
          pc, tickets, detected, pending, collection, query, runs,
          chat, chain, cli>>

NoCall == [op |-> "none", input |-> <<>>, output |-> <<>>]

NoQuery == [question |-> <<>>, tokenizedQuery |-> <<>>, docs |-> <<>>,
            promptText |-> <<>>, aiResponse |-> <<>>, final |-> <<>>,
            answered |-> FALSE]

\* the ingestTickets invocations of the interleaved specification
Runs == {"A", "B"}

\* an invocation at its loop head, no ticket taken up
NoRun == [pc |-> "loop", ticket |-> <<>>, mapping |-> <<>>, pending |-> <<>>]

\* the invocations of the chain that may overlap
Invocations == {"A", "B"}

\* new CustomerSupportRAG(), no query made
NoChat == [pc |-> "idle", question |-> <<>>, promptText |-> <<>>,
           tokenized |-> <<>>, conversationHistory |-> <<>>,
           mapping |-> <<>>, accumulatedMapping |-> <<>>,
           turnMappings |-> <<>>, restored |-> <<>>]

\* a chain invocation not started
NoInvocation == [pc |-> "idle", question |-> <<>>, mapping |-> <<>>,
                 answer |-> <<>>, restored |-> <<>>]

\* blindfoldProtect(): an empty mappingStore, no invocation of the chain
NoChain == [mappingStore |-> <<>>,
            invocation |-> [i \in Invocations |-> NoInvocation]]

\* the comparison program before main() runs
NoCli == [pc |-> "start", args |-> <<>>, strategies |-> <<>>, i |-> 0,
          called |-> <<>>, exitCode |-> 0, chroma |-> FALSE,
          summary |-> FALSE]

\* new TokenRegistry()
Init ==
  /\ registry = <<>>
  /\ reverse = <<>>
  /\ counters = <<>>
  /\ call = NoCall
  /\ issued = {}
  /\ pc = "loop"
  /\ tickets = <<>>
  /\ detected = <<>>
  /\ pending = <<>>
  /\ collection = <<>>
  /\ query = NoQuery
  /\ runs = [r \in Runs |-> NoRun]
  /\ chat = NoChat
  /\ chain = NoChain
  /\ cli = NoCli

Self == [registry |-> registry, reverse |-> reverse, counters |-> counters]

\* registry.getOrCreate(realValue, blindfoldToken)
GetOrCreate(realValue, blindfoldToken) ==
  LET r == getOrCreate(Self, realValue, blindfoldToken) IN
  /\ Len(r.registry) <= MaxEntries
  /\ registry' = r.registry
  /\ reverse' = r.reverse
  /\ counters' = r.counters
  /\ call' = [op |-> "getOrCreate", input |-> <<realValue, blindfoldToken>>,
              output |-> r.ret]
  /\ issued' = issued \cup {<<realValue, r.ret>>}
  /\ UNCHANGED pipelineVars

\* registry.replaceInText(text)
ReplaceInText(text) ==
  /\ call' = [op |-> "replaceInText", input |-> text,
              output |-> replaceInText(registry, text)]
  /\ UNCHANGED <<registry, reverse, counters, issued>>
  /\ UNCHANGED pipelineVars

\* registry.restoreText(text)
RestoreText(text) ==
  /\ call' = [op |-> "restoreText", input |-> text,
              output |-> restoreText(reverse, text)]
  /\ UNCHANGED <<registry, reverse, counters, issued>>
  /\ UNCHANGED pipelineVars

Next ==
  \/ \E v \in RealValues, t \in DetectorTokens : GetOrCreate(v, t)
  \/ \E text \in ReplaceInputs : ReplaceInText(text)
  \/ \E text \in RestoreInputs : RestoreText(text)

Spec == Init /\ [][Next]_vars

(***************************************************************************)
(* A registry that grows to more than nine values of one type, so that     *)
(* tokens of different lengths with a common beginning exist (<P_1> and    *)
(* <P_10>), and restoreText on texts that hold such tokens.                *)
(***************************************************************************)
\* the n-th real value registered: "v" and the digits of n
ValueNo(n) == <<"v">> \o NumberToString(n)

\* the provisional token the detector passes with every value
PersonToken == <<"<", "P", "_", "1", ">">>

\* texts handed to restoreText: tokens alone, side by side, repeated, cut
\* short, followed by a digit and a bracket, and with unknown numbers
TokenTexts ==
  { <<>>,
    <<"<", "P", "_", "1", ">">>,
    <<"<", "P", "_", "1", "0", ">">>,
    <<"<", "P", "_", "1", ">", "<", "P", "_", "1", "0", ">">>,
    <<"<", "P", "_", "1", "0", ">", " ", "<", "P", "_", "1", ">">>,
    <<"<", "P", "_", "1", ">", "0", ">">>,
    <<"<", "P", "_", "1", "0">>,
    <<"x", "<", "P", "_", "2", ">", "x", "<", "P", "_", "2", ">">>,
    <<"<", "P", "_", "1", "0", ">", "<", "P", "_", "1", "0", ">">>,
    <<"<", "P", "_", "1", "0", "0", ">">>,
    <<"<", "P", "_", "1", "1", ">", "<", "P", "_", "1", ">">> }

\* registry.getOrCreate(realValue, bfToken) for the next new value
RegisterNext ==
  LET r == getOrCreate(Self, ValueNo(Len(registry) + 1), PersonToken) IN
  /\ Len(registry) < MaxRegistered
  /\ registry' = r.registry
  /\ reverse' = r.reverse
  /\ counters' = r.counters
  /\ call' = [op |-> "getOrCreate",
              input |-> <<ValueNo(Len(registry) + 1), PersonToken>>,
              output |-> r.ret]
  /\ issued' = issued \cup {<<ValueNo(Len(registry) + 1), r.ret>>}
  /\ UNCHANGED pipelineVars

NextRestore ==
  \/ RegisterNext
  \/ \E text \in TokenTexts : RestoreText(text)

SpecRestore == Init /\ [][NextRestore]_vars

(***************************************************************************)
(* getOrCreate over every detector token up to a length: a registry is     *)
(* created, and the values of ParseValues are registered with one detector *)
(* token, well formed or not.                                              *)
(***************************************************************************)
TokenChars == {"<", ">", "_", "P", "1"}

\* every string over TokenChars up to MaxTokenLen characters, and the two
\* tokens `<Email_Address_3>` and `<Weird>`, written <E_A_3> and <W>
ParseTokens ==
  UNION { [1..n -> TokenChars] : n \in 0..MaxTokenLen }
    \cup { <<"<", "E", "_", "A", "_", "3", ">">>, <<"<", "W", ">">> }

ParseValues == { <<"m">>, <<"d">> }

\* new TokenRegistry(), and the detector token the calls will pass
InitParse ==
  /\ registry = <<>>
  /\ reverse = <<>>
  /\ counters = <<>>
  /\ \E t \in ParseTokens :
       call = [op |-> "none", input |-> <<<<>>, t>>, output |-> <<>>]
  /\ issued = {}
  /\ pc = "loop"
  /\ tickets = <<>>
  /\ detected = <<>>
  /\ pending = <<>>
  /\ collection = <<>>
  /\ query = NoQuery
  /\ runs = [r \in Runs |-> NoRun]
  /\ chat = NoChat
  /\ chain = NoChain
  /\ cli = NoCli

NextParse == \E v \in ParseValues : GetOrCreate(v, call.input[2])

SpecParse == InitParse /\ [][NextParse]_vars

(***************************************************************************)
(* The Strategy C program: main() = ingestTickets, then queryRAG per       *)
(* question.  Every await is a place where main() is suspended: pc names   *)
(* the call in flight, and the action that resumes it runs the code up to  *)
(* the next await in one step, as the JavaScript event loop does.          *)
(***************************************************************************)
\* SUPPORT_TICKETS entries
TicketTexts == { <<"m", "d", " ", "m">>, <<"m", "1">> }

\* real values the detector may report in a ticket
PipelineValues == { <<"m">>, <<"m", "d">>, <<"1">> }

\* provisional tokens of the detector, not stable across calls
PipelineTokens == { <<"<", "P", "_", "1", ">">>, <<"<", "P", "_", "2", ">">> }

\* QUERIES entries
Questions == { <<"m", "d">>, <<"1">>, <<"x">> }

\* completion.choices[0].message.content
AiResponses ==
  { <<"x">>, <<"<", "P", "_", "2", ">", " ", "<", "P", "_", "1", ">">> }

\* nResults of collection.query
NResults == 2

\* result.mapping of blindfold.tokenize(text), as Object.entries lists it:
\* <<bfToken, realValue>> pairs, keys distinct, for any of the values that
\* occur in the text (the detector may miss some)
Mappings(text) ==
  { m \in UNION { [1..n -> PipelineTokens \X PipelineValues] :
                    n \in 0..MaxDetected } :
      /\ \A i \in 1..Len(m) : Includes(text, m[i][2])
      /\ \A i, j \in 1..Len(m) :
           (m[i][1] = m[j][1] \/ m[i][2] = m[j][2]) => i = j }

\* the registration loop with getOrCreate's lookup left out
RECURSIVE RegisterAllUnchecked(_, _)
RegisterAllUnchecked(r, mapping) ==
  IF mapping = <<>> THEN r
  ELSE RegisterAllUnchecked(
         getOrCreateAlwaysCreates(r, Head(mapping)[2], Head(mapping)[1]),
         Tail(mapping))

\* for (const [bfToken, realValue] of Object.entries(result.mapping))
\*   registry.getOrCreate(realValue, bfToken)
RECURSIVE RegisterAll(_, _)
RegisterAll(r, mapping) ==
  IF mapping = <<>> THEN r
  ELSE RegisterAll(getOrCreate(r, Head(mapping)[2], Head(mapping)[1]),
                   Tail(mapping))

\* docs.join("\n\n")
RECURSIVE JoinDocs(_)
JoinDocs(docs) ==
  IF docs = <<>> THEN <<>>
  ELSE IF Len(docs) = 1 THEN docs[1]
  ELSE docs[1] \o <<"\n", "\n">> \o JoinDocs(Tail(docs))

\* `Context:\n${context}\n\nQuestion: ${tokenizedQuery}`
PromptText(context, tokenizedQuery) ==
  <<"C", "o", "n", "t", "e", "x", "t", ":", "\n">> \o context
    \o <<"\n", "\n", "Q", "u", "e", "s", "t", "i", "o", "n", ":", " ">>
    \o tokenizedQuery

\* results.documents[0] of collection.query: NResults stored documents (all
\* of them when fewer are stored), in the order the search ranks them
SearchResults(coll) ==
  LET k == IF Len(coll) < NResults THEN Len(coll) ELSE NResults IN
  { [i \in 1..k |-> coll[ix[i]]] :
      ix \in { f \in [1..k -> 1..Len(coll)] :
                 \A i, j \in 1..k : f[i] = f[j] => i = j } }

\* loop head of ingestTickets with idx < SUPPORT_TICKETS.length:
\* blindfold.tokenize(SUPPORT_TICKETS[idx]) is called
CallTokenize(ticket) ==
  /\ pc = "loop"
  /\ Len(tickets) < MaxTickets
  /\ tickets' = Append(tickets, ticket)
  /\ pc' = "tokenize"
  /\ UNCHANGED <<registryVars, callVars, runs, exampleVars, detected, pending,
                 collection, query>>

\* tokenize resolves: every detected entity is registered, the ORIGINAL
\* ticket is rewritten, and collection.add is called with the result
TokenizeReturns(mapping) ==
  /\ pc = "tokenize"
  /\ LET r == RegisterAll(Self, mapping) IN
       /\ registry' = r.registry
       /\ reverse' = r.reverse
       /\ counters' = r.counters
       /\ pending' = replaceInText(r.registry, tickets[Len(tickets)])
  /\ detected' = Append(detected, mapping)
  /\ pc' = "add"
  /\ UNCHANGED <<callVars, runs, exampleVars, tickets, collection, query>>

\* collection.add resolves: the document is stored under ticket-idx, idx++
AddReturns ==
  /\ pc = "add"
  /\ collection' = Append(collection, pending)
  /\ pc' = "loop"
  /\ UNCHANGED <<registryVars, callVars, runs, exampleVars, tickets, detected,
                 pending, query>>

\* idx = SUPPORT_TICKETS.length: ingestTickets returns, main turns to QUERIES
IngestDone ==
  /\ pc = "loop"
  /\ pc' = "ready"
  /\ UNCHANGED <<registryVars, callVars, runs, exampleVars, tickets, detected,
                 pending, collection, query>>

\* a query step that registers the question as a value of type Q
CallSearchRegisters(question) ==
  LET r == getOrCreate(Self, question, <<"<", "Q", "_", "1", ">">>) IN
  /\ pc = "ready"
  /\ registry' = r.registry
  /\ reverse' = r.reverse
  /\ counters' = r.counters
  /\ query' = [NoQuery EXCEPT !.question = question,
                 !.tokenizedQuery = replaceInText(r.registry, question)]
  /\ pc' = "search"
  /\ UNCHANGED <<callVars, runs, exampleVars, tickets, detected, pending,
                 collection>>

\* queryRAG step 1 and 2: the question is rewritten, collection.query called
CallSearch(question) ==
  /\ pc = "ready"
  /\ query' = [NoQuery EXCEPT !.question = question,
                 !.tokenizedQuery = replaceInText(registry, question)]
  /\ pc' = "search"
  /\ UNCHANGED <<registryVars, callVars, runs, exampleVars, tickets, detected,
                 pending, collection>>

\* collection.query resolves: the prompt is assembled and sent to the LLM
SearchReturns(docs) ==
  /\ pc = "search"
  /\ query' = [query EXCEPT !.docs = docs,
                 !.promptText = PromptText(JoinDocs(docs),
                                           query.tokenizedQuery)]
  /\ pc' = "llm"
  /\ UNCHANGED <<registryVars, callVars, runs, exampleVars, tickets, detected,
                 pending, collection>>

\* the completion resolves: step 4, the answer is restored and returned
LlmReturns(aiResponse) ==
  /\ pc = "llm"
  /\ query' = [query EXCEPT !.aiResponse = aiResponse,
                 !.final = restoreText(reverse, aiResponse),
                 !.answered = TRUE]
  /\ pc' = "ready"
  /\ UNCHANGED <<registryVars, callVars, runs, exampleVars, tickets, detected,
                 pending, collection>>

\* a failed storage call that also throws the registry away
AddFailsRollsBack ==
  /\ pc = "add"
  /\ registry' = <<>>
  /\ reverse' = <<>>
  /\ counters' = <<>>
  /\ pc' = "failed"
  /\ UNCHANGED <<callVars, runs, exampleVars, tickets, detected, pending,
                 collection, query>>

\* a failed detector call that is caught: the ticket is skipped
TokenizeFailsSkips ==
  /\ pc = "tokenize"
  /\ pc' = "loop"
  /\ UNCHANGED <<registryVars, callVars, runs, exampleVars, tickets, detected,
                 pending, collection, query>>

\* blindfold.tokenize rejects: nothing in ingestTickets or main catches it,
\* the promise of main() is rejected and the program is over
TokenizeFails ==
  /\ pc = "tokenize"
  /\ pc' = "failed"
  /\ UNCHANGED <<registryVars, callVars, runs, exampleVars, tickets, detected,
                 pending, collection, query>>

\* collection.add rejects: as above, after this ticket's getOrCreate calls
AddFails ==
  /\ pc = "add"
  /\ pc' = "failed"
  /\ UNCHANGED <<registryVars, callVars, runs, exampleVars, tickets, detected,
                 pending, collection, query>>

\* collection.query rejects: queryRAG and main() are rejected
SearchFails ==
  /\ pc = "search"
  /\ pc' = "failed"
  /\ UNCHANGED <<registryVars, callVars, runs, exampleVars, tickets, detected,
                 pending, collection, query>>

\* the completion call rejects: queryRAG and main() are rejected
LlmFails ==
  /\ pc = "llm"
  /\ pc' = "failed"
  /\ UNCHANGED <<registryVars, callVars, runs, exampleVars, tickets, detected,
                 pending, collection, query>>

NextC ==
  \/ \E ticket \in TicketTexts : CallTokenize(ticket)
  \/ /\ pc = "tokenize"
     /\ \E mapping \in Mappings(tickets[Len(tickets)]) :
          TokenizeReturns(mapping)
  \/ AddReturns
  \/ IngestDone
  \/ \E question \in Questions : CallSearch(question)
  \/ \E docs \in SearchResults(collection) : SearchReturns(docs)
  \/ \E aiResponse \in AiResponses : LlmReturns(aiResponse)
  \/ TokenizeFails
  \/ AddFails
  \/ SearchFails
  \/ LlmFails

SpecC == Init /\ [][NextC]_vars

(***************************************************************************)
(* Several ingestTickets invocations on one TokenRegistry and one          *)
(* collection.  Each is suspended at its own await; the event loop resumes *)
(* one at a time and runs it to its next await, so the getOrCreate loop    *)
(* and replaceInText of one ticket are one step.                           *)
(***************************************************************************)
\* run r at its loop head with a ticket left: blindfold.tokenize is called
RunCallTokenize(r, ticket) ==
  /\ runs[r].pc = "loop"
  /\ Len(tickets) < MaxTickets
  /\ tickets' = Append(tickets, ticket)
  /\ runs' = [runs EXCEPT ![r] = [pc |-> "tokenize", ticket |-> ticket,
                                   mapping |-> <<>>, pending |-> <<>>]]
  /\ UNCHANGED <<registryVars, callVars, exampleVars, pc, detected, pending,
                 collection, query>>

\* step 3 taken before step 2: the ticket is rewritten from the registry
\* as it is before this ticket's pairs are registered
RunTokenizeReturnsReplacesFirst(r, mapping) ==
  /\ runs[r].pc = "tokenize"
  /\ LET reg == RegisterAll(Self, mapping) IN
       /\ registry' = reg.registry
       /\ reverse' = reg.reverse
       /\ counters' = reg.counters
       /\ runs' = [runs EXCEPT ![r].pc = "add", ![r].mapping = mapping,
                     ![r].pending = replaceInText(registry, runs[r].ticket)]
  /\ UNCHANGED <<callVars, exampleVars, pc, tickets, detected, pending,
                 collection, query>>

\* tokenize of run r resolves: its pairs are registered in the shared
\* registry, its ORIGINAL ticket is rewritten, collection.add is called
RunTokenizeReturns(r, mapping) ==
  /\ runs[r].pc = "tokenize"
  /\ LET reg == RegisterAll(Self, mapping) IN
       /\ registry' = reg.registry
       /\ reverse' = reg.reverse
       /\ counters' = reg.counters
       /\ runs' = [runs EXCEPT ![r].pc = "add", ![r].mapping = mapping,
                     ![r].pending = replaceInText(reg.registry,
                                                  runs[r].ticket)]
  /\ UNCHANGED <<callVars, exampleVars, pc, tickets, detected, pending,
                 collection, query>>

\* collection.add of run r resolves: its document is stored
RunAddReturns(r) ==
  /\ runs[r].pc = "add"
  /\ collection' = Append(collection, runs[r].pending)
  /\ runs' = [runs EXCEPT ![r].pc = "loop"]
  /\ UNCHANGED <<registryVars, callVars, exampleVars, pc, tickets, detected,
                 pending, query>>

\* run r has no ticket left: ingestTickets returns
RunDone(r) ==
  /\ runs[r].pc = "loop"
  /\ runs' = [runs EXCEPT ![r].pc = "done"]
  /\ UNCHANGED <<registryVars, callVars, exampleVars, pc, tickets, detected,
                 pending, collection, query>>

NextI ==
  \E r \in Runs :
    \/ \E ticket \in TicketTexts : RunCallTokenize(r, ticket)
    \/ /\ runs[r].pc = "tokenize"
       /\ \E mapping \in Mappings(runs[r].ticket) :
            RunTokenizeReturns(r, mapping)
    \/ RunAddReturns(r)
    \/ RunDone(r)

SpecI == Init /\ [][NextI]_vars

(***************************************************************************)
(* Strategy B (stored mapping): strategyBIngest stores the detector's own  *)
(* rewritten text and keeps the detector's mapping per document;           *)
(* strategyBQuery rewrites the question through a reverse lookup, merges   *)
(* the mappings of the retrieved documents and detokenizes the answer.     *)
(* detected[i] is mappingStore["ticket-(i-1)"] once document i is stored.  *)
(***************************************************************************)
\* real values the detector reports in Strategy B tickets and questions
BValues == { <<"m">>, <<"m", "d">> }

\* result.mapping of one blindfold.tokenize call: the detector numbers
\* its tokens afresh in every call, <P_1>, <P_2>, ... in mapping order
BMappings(text) ==
  { m \in Mappings(text) :
      \A i \in 1..Len(m) :
        /\ m[i][1] = ConsistentToken(<<"P">>, i)
        /\ m[i][2] \in BValues }

\* result.text of blindfold.tokenize: the text read once from left to
\* right, the longest detected value at a position replaced by its token
RECURSIVE TokenizedText(_, _)
TokenizedText(text, mapping) ==
  LET here == {i \in 1..Len(mapping) : OccursAt(text, mapping[i][2], 1)} IN
  IF text = <<>> THEN <<>>
  ELSE IF here # {}
       THEN LET i == CHOOSE i \in here :
                       \A j \in here :
                         Len(mapping[j][2]) <= Len(mapping[i][2])
            IN  mapping[i][1]
                  \o TokenizedText(
                       SubSeq(text, Len(mapping[i][2]) + 1, Len(text)),
                       mapping)
       ELSE <<Head(text)>> \o TokenizedText(Tail(text), mapping)

\* blindfold.detokenize(text, mapping).text: every token that is a key of
\* the mapping replaced by the value the mapping holds for it
RECURSIVE Detokenize(_, _)
Detokenize(text, mapping) ==
  IF text = <<>> THEN <<>>
  ELSE IF \E t \in MapKeys(mapping) : OccursAt(text, t, 1)
       THEN LET t == CHOOSE t \in MapKeys(mapping) : OccursAt(text, t, 1)
            IN  MapGet(mapping, t)
                  \o Detokenize(SubSeq(text, Len(t) + 1, Len(text)), mapping)
       ELSE <<Head(text)>> \o Detokenize(Tail(text), mapping)

\* mappingStore: the mappings of the documents stored so far
MappingStore == SubSeq(detected, 1, Len(collection))

\* the loops "for docId, mapping of mappingStore / for token, realValue of
\* mapping": reverseLookup[realValue].push([docId, token]), from document
\* d entry k on, added to the lookup rl
RECURSIVE ReverseLookup(_, _, _, _)
ReverseLookup(store, d, k, rl) ==
  IF d > Len(store) THEN rl
  ELSE IF k > Len(store[d]) THEN ReverseLookup(store, d + 1, 1, rl)
  ELSE LET token == store[d][k][1]
           realValue == store[d][k][2]
           entries == IF MapHas(rl, realValue) THEN MapGet(rl, realValue)
                      ELSE <<>>
       IN  ReverseLookup(store, d, k + 1,
             MapSet(rl, realValue, Append(entries, <<d, token>>)))

\* the loop over Object.entries(reverseLookup): a real value the query
\* includes is replaced by the first token found for it; the result is the
\* rewritten query and the replacements made
RECURSIVE RewriteQuery(_, _, _)
RewriteQuery(tokenizedQuery, matched, rl) ==
  IF rl = <<>>
  THEN [tokenizedQuery |-> tokenizedQuery, matched |-> matched]
  ELSE LET realValue == Head(rl)[1]
           token == Head(rl)[2][1][2]
       IN  IF Includes(tokenizedQuery, realValue)
           THEN RewriteQuery(SplitJoin(tokenizedQuery, realValue, token),
                             Append(matched, <<realValue, token>>), Tail(rl))
           ELSE RewriteQuery(tokenizedQuery, matched, Tail(rl))

\* Object.assign(target, source): every key of source set in target
RECURSIVE ObjectAssign(_, _)
ObjectAssign(target, source) ==
  IF source = <<>> THEN target
  ELSE ObjectAssign(MapSet(target, Head(source)[1], Head(source)[2]),
                    Tail(source))

\* for (const docId of results.ids[0]) Object.assign(mergedMapping, ...)
RECURSIVE MergeMappings(_, _, _)
MergeMappings(store, ids, mergedMapping) ==
  IF ids = <<>> THEN mergedMapping
  ELSE MergeMappings(store, Tail(ids),
                     ObjectAssign(mergedMapping, store[Head(ids)]))

\* results.ids[0] of collection.query: NResults documents (all when fewer
\* are stored), in the order the search ranks them
SearchIds(coll) ==
  LET k == IF Len(coll) < NResults THEN Len(coll) ELSE NResults IN
  { f \in [1..k -> 1..Len(coll)] : \A i, j \in 1..k : f[i] = f[j] => i = j }

\* questions put to strategyBQuery
BQuestions == { <<"m", "d">>, <<"m", " ", "x">>, <<"x">> }

\* completion.choices[0].message.content
BAiResponses ==
  { <<"x">>, <<"<", "P", "_", "1", ">">>,
    <<"<", "P", "_", "2", ">", " ", "<", "P", "_", "1", ">">> }

\* blindfold.tokenize resolves: collection.add is called with result.text
BTokenizeReturns(mapping) ==
  /\ pc = "tokenize"
  /\ pending' = TokenizedText(tickets[Len(tickets)], mapping)
  /\ detected' = Append(detected, mapping)
  /\ pc' = "add"
  /\ UNCHANGED <<registryVars, callVars, runs, exampleVars, tickets,
                 collection, query>>

\* strategyBQuery up to its first await: reverse lookup, query rewriting,
\* collection.query called
BCallSearch(question) ==
  LET rw == RewriteQuery(question, <<>>,
                         ReverseLookup(MappingStore, 1, 1, <<>>)) IN
  /\ pc = "ready"
  /\ query' = [question |-> question,
               tokenizedQuery |-> rw.tokenizedQuery,
               matched |-> rw.matched,
               ids |-> <<>>, docs |-> <<>>, mergedMapping |-> <<>>,
               promptText |-> <<>>, aiResponse |-> <<>>, final |-> <<>>,
               answered |-> FALSE]
  /\ pc' = "search"
  /\ UNCHANGED <<registryVars, callVars, runs, exampleVars, tickets, detected,
                 pending, collection>>

\* collection.query resolves: the mappings of the retrieved documents are
\* merged, the prompt is assembled and sent to the LLM
BSearchReturns(ids) ==
  /\ pc = "search"
  /\ LET docs == [i \in 1..Len(ids) |-> collection[ids[i]]] IN
     query' = [query EXCEPT !.ids = ids, !.docs = docs,
                 !.mergedMapping = MergeMappings(MappingStore, ids, <<>>),
                 !.promptText = PromptText(JoinDocs(docs),
                                           query.tokenizedQuery)]
  /\ pc' = "llm"
  /\ UNCHANGED <<registryVars, callVars, runs, exampleVars, tickets, detected,
                 pending, collection>>

\* the completion resolves: the answer is detokenized with the merged
\* mapping and returned
BLlmReturns(aiResponse) ==
  /\ pc = "llm"
  /\ query' = [query EXCEPT !.aiResponse = aiResponse,
                 !.final = Detokenize(aiResponse, query.mergedMapping),
                 !.answered = TRUE]
  /\ pc' = "ready"
  /\ UNCHANGED <<registryVars, callVars, runs, exampleVars, tickets, detected,
                 pending, collection>>

NextB ==
  \/ \E ticket \in TicketTexts : CallTokenize(ticket)
  \/ /\ pc = "tokenize"
     /\ \E mapping \in BMappings(tickets[Len(tickets)]) :
          BTokenizeReturns(mapping)
  \/ AddReturns
  \/ IngestDone
  \/ \E question \in BQuestions : BCallSearch(question)
  \/ \E ids \in SearchIds(collection) : BSearchReturns(ids)
  \/ \E aiResponse \in BAiResponses : BLlmReturns(aiResponse)

SpecB == Init /\ [][NextB]_vars

(***************************************************************************)
(* The multi-turn support chat: CustomerSupportRAG.query searches with the *)
(* question as asked, tokenizes context and question in one detector call, *)
(* merges that call's mapping into accumulatedMapping, sends the history   *)
(* and the tokenized prompt to the LLM, appends both sides to the history  *)
(* and detokenizes the answer with accumulatedMapping.  turnMappings keeps *)
(* each turn's own mapping for the record.                                 *)
(***************************************************************************)
\* results.documents[0].join("\n\n"): stored tickets keep their names
ChatContexts == { <<>>, <<"m", "d">> }

ChatQuestions == { <<"m">>, <<"m", "d">>, <<"x">> }

\* rag.query(question) is called: collection.query is awaited
ChatQuery(question) ==
  /\ chat.pc = "idle"
  /\ Len(chat.turnMappings) < MaxTurns
  /\ chat' = [chat EXCEPT !.pc = "search", !.question = question]
  /\ UNCHANGED <<coreVars, chain, cli>>

\* the search resolves: blindfold.tokenize(promptText) is awaited
ChatSearchReturns(context) ==
  /\ chat.pc = "search"
  /\ chat' = [chat EXCEPT !.pc = "tokenize",
                !.promptText = PromptText(context, chat.question)]
  /\ UNCHANGED <<coreVars, chain, cli>>

\* tokenize resolves: Object.assign(this.accumulatedMapping,
\* tokenized.mapping), the messages are built, the completion is awaited
ChatTokenizeReturns(mapping) ==
  /\ chat.pc = "tokenize"
  /\ chat' = [chat EXCEPT !.pc = "llm",
                !.mapping = mapping,
                !.tokenized = TokenizedText(chat.promptText, mapping),
                !.accumulatedMapping
                   = ObjectAssign(chat.accumulatedMapping, mapping)]
  /\ UNCHANGED <<coreVars, chain, cli>>

\* the completion resolves: both sides go into conversationHistory, the
\* answer is detokenized with accumulatedMapping and returned
ChatLlmReturns(aiResponse) ==
  /\ chat.pc = "llm"
  /\ chat' = [chat EXCEPT !.pc = "idle",
                !.conversationHistory
                   = chat.conversationHistory
                       \o <<chat.tokenized, aiResponse>>,
                !.turnMappings = Append(chat.turnMappings, chat.mapping),
                !.restored = Detokenize(aiResponse, chat.accumulatedMapping)]
  /\ UNCHANGED <<coreVars, chain, cli>>

NextChat ==
  \/ \E question \in ChatQuestions : ChatQuery(question)
  \/ \E context \in ChatContexts : ChatSearchReturns(context)
  \/ /\ chat.pc = "tokenize"
     /\ \E mapping \in BMappings(chat.promptText) :
          ChatTokenizeReturns(mapping)
  \/ \E aiResponse \in BAiResponses : ChatLlmReturns(aiResponse)

SpecChat == Init /\ [][NextChat]_vars

(***************************************************************************)
(* blindfoldProtect: one closure holds mappingStore; the chain built from  *)
(* its two runnables is tokenize, then retrieval, prompt and LLM, then     *)
(* detokenize.  Each chain.invoke is suspended at the detector call and    *)
(* at the steps up to the LLM answer; detokenize holds no await.           *)
(***************************************************************************)
ChainQuestions == { <<"m">>, <<"m", "d", " ", "m">>, <<"x">> }

\* chain.invoke(question): the tokenize runnable awaits blindfold.tokenize
ChainInvoke(i, question) ==
  /\ chain.invocation[i].pc = "idle"
  /\ chain' = [chain EXCEPT
                 !.invocation[i] = [NoInvocation EXCEPT !.pc = "tokenize",
                                      !.question = question]]
  /\ UNCHANGED <<coreVars, chat, cli>>

\* blindfold.tokenize resolves: Object.assign(mappingStore,
\* result.mapping); retrieval, prompt and LLM follow
ChainTokenizeReturns(i, mapping) ==
  /\ chain.invocation[i].pc = "tokenize"
  /\ chain' = [chain EXCEPT
                 !.mappingStore = ObjectAssign(chain.mappingStore, mapping),
                 !.invocation[i].pc = "llm",
                 !.invocation[i].mapping = mapping]
  /\ UNCHANGED <<coreVars, chat, cli>>

\* the LLM answer is parsed and the detokenize runnable runs: the answer
\* is detokenized with mappingStore, every key of mappingStore is deleted
ChainLlmReturns(i, answer) ==
  /\ chain.invocation[i].pc = "llm"
  /\ chain' = [chain EXCEPT
                 !.mappingStore = <<>>,
                 !.invocation[i].pc = "done",
                 !.invocation[i].answer = answer,
                 !.invocation[i].restored
                    = Detokenize(answer, chain.mappingStore)]
  /\ UNCHANGED <<coreVars, chat, cli>>

\* the caller has its answer; the chain may be invoked again
ChainReturns(i) ==
  /\ chain.invocation[i].pc = "done"
  /\ chain' = [chain EXCEPT !.invocation[i] = NoInvocation]
  /\ UNCHANGED <<coreVars, chat, cli>>

NextChain ==
  \E i \in Invocations :
    \/ \E question \in ChainQuestions : ChainInvoke(i, question)
    \/ /\ chain.invocation[i].pc = "tokenize"
       /\ \E mapping \in BMappings(chain.invocation[i].question) :
            ChainTokenizeReturns(i, mapping)
    \/ \E answer \in BAiResponses : ChainLlmReturns(i, answer)
    \/ ChainReturns(i)

SpecChain == Init /\ [][NextChain]_vars

(***************************************************************************)
(* The strategy comparison program: main() reads the command line, checks  *)
(* every argument against STRATEGY_MAP, then awaits the runners in turn    *)
(* and prints the summary.                                                 *)
(***************************************************************************)
\* String.prototype.toLowerCase, for the letters the arguments hold
LowerChar(ch) ==
  CASE ch = "A" -> "a" [] ch = "B" -> "b" [] ch = "C" -> "c"
    [] OTHER -> ch

ToLowerCase(str) == [k \in 1..Len(str) |-> LowerChar(str[k])]

\* STRATEGY_MAP[s]: the object literal's own keys a, b, c, and below them
\* what a plain object inherits from Object.prototype
STRATEGY_MAP(str) ==
  CASE str = <<"a">> -> "runStrategyA"
    [] str = <<"b">> -> "runStrategyB"
    [] str = <<"c">> -> "runStrategyC"
    [] str = <<"c", "o", "n", "s", "t", "r", "u", "c", "t", "o", "r">>
         -> "Object"
    [] OTHER -> "undefined"

\* one command-line argument
ArgValues ==
  { <<"a">>, <<"b">>, <<"c">>, <<"A">>, <<"x">>,
    <<"c", "o", "n", "s", "t", "r", "u", "c", "t", "o", "r">> }

\* process.argv.slice(2)
ArgLists == UNION { [1..n -> ArgValues] : n \in 0..MaxArgs }

\* main() up to its first await: the strategies are named, validated, and
\* either process.exit(1) or new ChromaClient() and the first runner called
CliMain(args) ==
  LET strategies == IF Len(args) > 0
                    THEN [k \in 1..Len(args) |-> ToLowerCase(args[k])]
                    ELSE << <<"a">>, <<"b">>, <<"c">> >>
  IN
  /\ cli.pc = "start"
  /\ IF \E k \in 1..Len(strategies) :
          STRATEGY_MAP(strategies[k]) = "undefined"
     THEN cli' = [cli EXCEPT !.pc = "exited", !.args = args,
                    !.strategies = strategies, !.exitCode = 1]
     ELSE cli' = [cli EXCEPT !.pc = "running", !.args = args,
                    !.strategies = strategies, !.chroma = TRUE, !.i = 1,
                    !.called = <<STRATEGY_MAP(strategies[1])>>]
  /\ UNCHANGED <<coreVars, chat, chain>>

\* the awaited runner resolves: the next runner is called, or after the
\* last one the summary is printed when strategies.length > 1
CliRunnerReturns ==
  /\ cli.pc = "running"
  /\ IF cli.i < Len(cli.strategies)
     THEN cli' = [cli EXCEPT !.i = cli.i + 1,
                    !.called = Append(cli.called,
                                 STRATEGY_MAP(cli.strategies[cli.i + 1]))]
     ELSE cli' = [cli EXCEPT !.pc = "done",
                    !.summary = (Len(cli.strategies) > 1)]
  /\ UNCHANGED <<coreVars, chat, chain>>

\* the awaited runner rejects: main() is rejected, nothing catches it
CliRunnerFails ==
  /\ cli.pc = "running"
  /\ cli.called[cli.i] # "Object"
  /\ cli' = [cli EXCEPT !.pc = "failed", !.exitCode = 1]
  /\ UNCHANGED <<coreVars, chat, chain>>

NextCli ==
  \/ \E args \in ArgLists : CliMain(args)
  \/ CliRunnerReturns
  \/ CliRunnerFails

SpecCli == Init /\ [][NextCli]_vars

(***************************************************************************)
(* Properties of the registry operations (specification Spec).             *)
(***************************************************************************)
\* a map read as a set of <<key, value>> pairs
Pairs(m) == {m[i] : i \in 1..Len(m)}

\* no key twice, no value twice
OneToOne(m) ==
  \A i, j \in 1..Len(m) :
    (m[i][1] = m[j][1] \/ m[i][2] = m[j][2]) => i = j

\* C2: after any sequence of getOrCreate, replaceInText and restoreText
\* calls, registry and reverse are mutually inverse: every real value has
\* exactly one token, every token exactly one real value, and
\* reverse[registry[v]] = v for every registered v.
C2_Bijection ==
  /\ OneToOne(registry)
  /\ OneToOne(reverse)
  /\ Pairs(reverse) = {<<p[2], p[1]>> : p \in Pairs(registry)}
  /\ \A v \in MapKeys(registry) :
       /\ MapHas(reverse, MapGet(registry, v))
       /\ MapGet(reverse, MapGet(registry, v)) = v

\* two values of one type are registered and text operations have run since
C2_Witness ==
  /\ Len(registry) = 2
  /\ extractEntityType(registry[1][2]) = extractEntityType(registry[2][2])
  /\ call.op = "restoreText"
  /\ call.output # call.input

\* C3: any two getOrCreate calls for the same real value return the same
\* token, whatever detector tokens are passed and whatever other
\* getOrCreate calls happen in between.
C3_SameTokenOnRepeat ==
  \A p, q \in issued : p[1] = q[1] => p[2] = q[2]

\* a repeat call for the first value, after another value was registered,
\* with a detector token of another type than the first call's
C3_Witness ==
  /\ Len(registry) = 2
  /\ call.op = "getOrCreate"
  /\ call.input[1] = registry[1][1]
  /\ call.output = registry[1][2]
  /\ ConsistentToken(extractEntityType(call.input[2]), 1) # call.output
  /\ ConsistentToken(extractEntityType(call.input[2]), 2) # call.output

\* C4: distinct real values registered in the same registry have distinct
\* tokens, whatever detector tokens they were registered with (types with
\* underscores or digits, malformed tokens).
C4_DistinctTokens ==
  /\ \A p, q \in issued : p[1] # q[1] => p[2] # q[2]
  /\ \A i, j \in 1..Len(registry) : i # j => registry[i][2] # registry[j][2]

\* two values registered under one type, from a malformed detector token or
\* from a type name containing an underscore
C4_Witness ==
  /\ Len(registry) = 2
  /\ \/ {registry[1][2], registry[2][2]}
          = {<<"<", "W", "_", "1", ">">>, <<"<", "W", "_", "2", ">">>}
     \/ {registry[1][2], registry[2][2]}
          = {<<"<", "E", "_", "A", "_", "1", ">">>,
             <<"<", "E", "_", "A", "_", "2", ">">>}
  /\ Cardinality(issued) = 2

\* text no detector reports as a real value
LiteralChars == {"x", " "}

\* t is built only from registered real values and literal text
RECURSIVE BuiltFromRegistered(_, _)
BuiltFromRegistered(reg, t) ==
  \/ t = <<>>
  \/ /\ Head(t) \in LiteralChars
     /\ BuiltFromRegistered(reg, Tail(t))
  \/ \E v \in MapKeys(reg) :
       /\ v # <<>>
       /\ OccursAt(t, v, 1)
       /\ BuiltFromRegistered(reg, SubSeq(t, Len(v) + 1, Len(t)))

\* C6: round trip: for any registry state and any text T built only from
\* registered real values and literal text,
\* restoreText(replaceInText(T)) = T.
C6_RoundTrip ==
  (call.op = "replaceInText" /\ BuiltFromRegistered(registry, call.input))
    => restoreText(reverse, call.output) = call.input

\* s is a proper substring of l
ProperSubstring(s, l) == Len(s) < Len(l) /\ Includes(l, s)

\* the text as replaceInText holds it after its first k candidates
TextAfter(text, sorted, k) == SubstituteAll(text, SubSeq(sorted, 1, k))

\* l with its first s replaced by the token of s
Mangled(l, s, tokS) ==
  LET i == FirstIndexOf(l, s) IN
  SubSeq(l, 1, i - 1) \o tokS \o SubSeq(l, i + Len(s), Len(l))

C8_Idempotent ==
  call.op = "replaceInText" =>
    /\ replaceInText(registry, call.output) = call.output
    /\ \A v \in MapKeys(registry) : ~Includes(call.output, v)

\* the last number used for entity type t, 0 when none was
CounterOf(cnt, t) == IF MapHas(cnt, t) THEN MapGet(cnt, t) ELSE 0

\* C11: over any sequence of registry operations, no counter ever
\* decreases, every registered token carries a number its type's counter has
\* already reached, and a getOrCreate call that creates a token takes a
\* number above the counter it found: no number is assigned twice for the
\* same type.
C11_CountersNeverReuse ==
  [][/\ \A t \in MapKeys(counters) :
          CounterOf(counters', t) >= CounterOf(counters, t)
     /\ \A i \in 1..Len(registry) :
          \E t \in MapKeys(counters) : \E n \in 1..CounterOf(counters, t) :
            registry[i][2] = ConsistentToken(t, n)
     /\ Len(registry') > Len(registry) =>
          \E t \in MapKeys(counters') :
            /\ CounterOf(counters', t) > CounterOf(counters, t)
            /\ registry'[Len(registry')][2]
                 = ConsistentToken(t, CounterOf(counters', t))]_vars

\* two values were registered under one type: its counter has reached 2
C11_Witness ==
  /\ Len(registry) = 2
  /\ Len(counters) = 1
  /\ counters[1][2] = 2
  /\ call.op = "getOrCreate"
  /\ call.output = ConsistentToken(counters[1][1], 2)

\* C13: replaceInText returns its input when the text contains no
\* registered real value, and restoreText returns its input when the text
\* contains no registered token, for every registry state, the empty one
\* included; both are total.
C13_UnknownPassThrough ==
  /\ (call.op = "replaceInText"
        /\ \A v \in MapKeys(registry) : ~Includes(call.input, v))
       => call.output = call.input
  /\ (call.op = "restoreText"
        /\ \A t \in MapKeys(reverse) : ~Includes(call.input, t))
       => call.output = call.input

\* a token no getOrCreate issued is handed to restoreText of a registry
\* holding two other tokens
C13_Witness ==
  /\ Len(reverse) = 2
  /\ call.op = "restoreText"
  /\ call.input = <<"<", "W", "_", "1", ">">>
  /\ ~MapHas(reverse, call.input)
  /\ call.output = call.input

\* C14: a getOrCreate call for a real value already registered changes
\* neither map nor any counter, the counter of the type named by the
\* detector token of that call included, and returns the value's first
\* token.
C14_RepeatChangesNothing ==
  [][(call'.op = "getOrCreate" /\ MapHas(registry, call'.input[1]))
       => /\ registry' = registry
          /\ reverse' = reverse
          /\ counters' = counters
          /\ call'.output = MapGet(registry, call'.input[1])]_vars

\* a value registered under one type was detected again as a type that has
\* no counter yet
C14_Witness ==
  /\ call.op = "getOrCreate"
  /\ MapHas(registry, call.input[1])
  /\ call.output = MapGet(registry, call.input[1])
  /\ ~MapHas(counters, extractEntityType(call.input[2]))
  /\ extractEntityType(call.output) # extractEntityType(call.input[2])

\* the token tok is `<T_n>` for some n
OfType(tok, T) ==
  \E n \in 1..(Len(registry) + 1) : tok = ConsistentToken(T, n)

\* the registry entries, in order of registration, whose token has type T
EntriesOfType(T) == {i \in 1..Len(registry) : OfType(registry[i][2], T)}

\* C21: the n-th real value registered under type T has the token `<T_n>`:
\* numbers start at 1 and have no gaps, the counter of T is the number of
\* registered values whose token has type T, every token has the type of a
\* counter, and the values of one type take no number of another.
C21_ContiguousNumbering ==
  /\ \A i \in 1..Len(registry) :
       \E T \in MapKeys(counters) : OfType(registry[i][2], T)
  /\ \A T \in MapKeys(counters) :
       /\ MapGet(counters, T) = Cardinality(EntriesOfType(T))
       /\ \A i \in EntriesOfType(T) :
            registry[i][2]
              = ConsistentToken(T,
                  Cardinality({j \in EntriesOfType(T) : j <= i}))

\* a value of a second type was registered after a value of a first type:
\* both carry number 1
C21_Witness ==
  /\ Len(registry) = 2
  /\ Len(counters) = 2
  /\ counters[1][2] = 1
  /\ counters[2][2] = 1
  /\ call.op = "getOrCreate"
  /\ call.output = ConsistentToken(counters[2][1], 1)

\* the positions at which v occurs in text with no other registered real
\* value occurring across any of its characters
FreeOccurrences(reg, text, v) ==
  { p \in 1..Len(text) :
      /\ OccursAt(text, v, p)
      /\ \A l \in MapKeys(reg) \ {v} : \A q \in 1..Len(text) :
           OccursAt(text, l, q) =>
             (q + Len(l) <= p \/ p + Len(v) <= q) }

\* text with every character that belongs to an occurrence of a registered
\* value taken out
RECURSIVE OutsideValues(_, _)
OutsideValues(reg, text) ==
  IF text = <<>> THEN <<>>
  ELSE IF \E v \in MapKeys(reg) : v # <<>> /\ OccursAt(text, v, 1)
       THEN LET v == CHOOSE v \in MapKeys(reg) :
                       /\ v # <<>>
                       /\ OccursAt(text, v, 1)
                       /\ \A w \in MapKeys(reg) :
                            OccursAt(text, w, 1) => Len(w) <= Len(v)
            IN  OutsideValues(reg, SubSeq(text, Len(v) + 1, Len(text)))
       ELSE <<Head(text)>> \o OutsideValues(reg, Tail(text))

\* text with every character that belongs to a registered token taken out
RECURSIVE OutsideTokenText(_, _)
OutsideTokenText(reg, text) ==
  IF text = <<>> THEN <<>>
  ELSE IF \E t \in MapValues(reg) : OccursAt(text, t, 1)
       THEN LET t == CHOOSE t \in MapValues(reg) : OccursAt(text, t, 1)
            IN  OutsideTokenText(reg, SubSeq(text, Len(t) + 1, Len(text)))
       ELSE <<Head(text)>> \o OutsideTokenText(reg, Tail(text))

\* C23: replaceInText replaces every occurrence of each registered real
\* value: the output holds the value's token at least as often as the
\* input holds the value outside occurrences of other registered values,
\* and what the input holds outside registered values is what the output
\* holds outside registered tokens, character for character.  Stated for
\* inputs that hold no "<" or ">" of their own.
C23_EveryOccurrenceReplaced ==
  (call.op = "replaceInText"
    /\ \A p \in 1..Len(call.input) : call.input[p] \notin {"<", ">"}) =>
    /\ \A v \in MapKeys(registry) :
         CountOccurrences(call.output, MapGet(registry, v))
           >= Cardinality(FreeOccurrences(registry, call.input, v))
    /\ OutsideTokenText(registry, call.output)
         = OutsideValues(registry, call.input)

\* C24: within one replaceInText call no token written for one real value
\* is changed by the replacement of a value tried later: the final output
\* holds each token as often as the text held it right after that token's
\* value was replaced.
C24_TokensStayIntact ==
  call.op = "replaceInText" =>
    LET sorted == SortByLengthDesc(registry) IN
    \A i \in 1..Len(sorted) :
      Includes(TextAfter(call.input, sorted, i - 1), sorted[i][1]) =>
        CountOccurrences(call.output, sorted[i][2])
          >= CountOccurrences(TextAfter(call.input, sorted, i), sorted[i][2])

(***************************************************************************)
(* Properties of restoreText over tokens of different lengths              *)
(* (specification SpecRestore).                                            *)
(***************************************************************************)
\* text read once from left to right, every registered token found
\* replaced by its own real value, every other character kept
RECURSIVE RestoredInOnePass(_, _)
RestoredInOnePass(rev, text) ==
  IF text = <<>> THEN <<>>
  ELSE IF \E t \in MapKeys(rev) : OccursAt(text, t, 1)
       THEN LET t == CHOOSE t \in MapKeys(rev) : OccursAt(text, t, 1)
            IN  MapGet(rev, t)
                  \o RestoredInOnePass(rev, SubSeq(text, Len(t) + 1, Len(text)))
       ELSE <<Head(text)>> \o RestoredInOnePass(rev, Tail(text))

\* C22: restoreText tries the tokens in descending order of length and
\* replaces every occurrence of every registered token by that token's own
\* real value; a token that begins like a longer token (<P_1>, <P_10>) is
\* not restored to the other's value, and neither is left partly replaced;
\* text that is no registered token is kept.
C22_RestoreByOwnValue ==
  call.op = "restoreText" =>
    /\ LET sorted == SortByLengthDesc(reverse) IN
       \A i, j \in 1..Len(sorted) :
         i < j => Len(sorted[i][1]) >= Len(sorted[j][1])
    /\ call.output = RestoredInOnePass(reverse, call.input)
    /\ \A t \in MapKeys(reverse) : ~Includes(call.output, t)

\* <P_1> and <P_10> are both registered and the text holds both, the
\* shorter first
C22_Witness ==
  /\ Len(reverse) = 10
  /\ call.op = "restoreText"
  /\ call.input = <<"<", "P", "_", "1", ">", "<", "P", "_", "1", "0", ">">>
  /\ call.output = ValueNo(1) \o ValueNo(10)

(***************************************************************************)
(* Properties of entity-type parsing (specification SpecParse).            *)
(***************************************************************************)
\* the token without a leading "<" and without a trailing ">"
WithoutBrackets(token) ==
  LET from == IF Len(token) >= 1 /\ token[1] = "<" THEN 2 ELSE 1
      to == IF Len(token) >= from /\ token[Len(token)] = ">"
            THEN Len(token) - 1 ELSE Len(token)
  IN  SubSeq(token, from, to)

\* the positions from..Len(s) at which s has its last underscore with
\* nothing but digits, and at least one, after it
NumericSuffixAt(s, from) ==
  { k \in from..Len(s) :
      /\ s[k] = "_"
      /\ k < Len(s)
      /\ \A j \in (k + 1)..Len(s) : s[j] \in Digits }

\* s without its numeric suffix, when the underscore is at from or later
WithoutNumericSuffix(s, from) ==
  IF NumericSuffixAt(s, from) = {} THEN s
  ELSE SubSeq(s, 1, (CHOOSE k \in NumericSuffixAt(s, from) : TRUE) - 1)

\* getOrCreate created its tokens under entity type type, and no other
UsedType(type) ==
  /\ MapKeys(counters) = {type}
  /\ \A i \in 1..Len(registry) :
       registry[i][2] = ConsistentToken(type, i)

\* C12, as stated: for every detector token, the type getOrCreate uses is
\* the token without its brackets, and without the last underscore and what
\* follows it whenever what follows is entirely numeric.
C12_TypeOfEveryToken ==
  call.op = "getOrCreate" =>
    UsedType(WithoutNumericSuffix(WithoutBrackets(call.input[2]), 1))

\* C12, amended: the underscore and numeric suffix are removed only when
\* the underscore is not the first character of the stripped token; a
\* stripped token that starts with its last underscore is the type as a
\* whole.
C12_TypeOfToken ==
  call.op = "getOrCreate" =>
    UsedType(WithoutNumericSuffix(WithoutBrackets(call.input[2]), 2))

\* two values registered with the detector token <_1>: the type is _1
C12_Witness ==
  /\ call.op = "getOrCreate"
  /\ call.input[2] = <<"<", "_", "1", ">">>
  /\ Len(registry) = 2
  /\ call.output = <<"<", "_", "1", "_", "2", ">">>

\* a detector token that is empty, lacks a bracket or has no underscore
Malformed(token) ==
  \/ token = <<>>
  \/ token[1] # "<"
  \/ token[Len(token)] # ">"
  \/ \A i \in 1..Len(token) : token[i] # "_"

\* C18, as stated: getOrCreate with a malformed detector token registers
\* the value under the raw token string, minus a leading "<" and a trailing
\* ">", as entity type and returns `<type_n>`.
C18_RawTokenAsType ==
  (call.op = "getOrCreate" /\ Malformed(call.input[2])) =>
    LET type == WithoutBrackets(call.input[2]) IN
    /\ MapHas(registry, call.input[1])
    /\ MapGet(registry, call.input[1]) = call.output
    /\ \E n \in 1..CounterOf(counters, type) :
         call.output = ConsistentToken(type, n)

\* C18, amended: the entity type of a malformed detector token is the raw
\* token string minus a leading "<" and a trailing ">" and, as for a well
\* formed token, minus a numeric suffix that follows a non-empty prefix;
\* the value is registered, `<type_n>` is returned, and further calls go
\* on.
C18_MalformedTokenRegistered ==
  (call.op = "getOrCreate" /\ Malformed(call.input[2])) =>
    LET type == WithoutNumericSuffix(WithoutBrackets(call.input[2]), 2) IN
    /\ MapHas(registry, call.input[1])
    /\ MapGet(registry, call.input[1]) = call.output
    /\ MapGet(reverse, call.output) = call.input[1]
    /\ \E n \in 1..CounterOf(counters, type) :
         call.output = ConsistentToken(type, n)

\* the bracketless detector token P_1 was passed twice: the second value
\* got <P_2>
C18_Witness ==
  /\ call.op = "getOrCreate"
  /\ call.input[2] = <<"P", "_", "1">>
  /\ Len(registry) = 2
  /\ call.output = <<"<", "P", "_", "2", ">">>

(***************************************************************************)
(* Properties of the Strategy C pipelines (specification SpecC).           *)
(***************************************************************************)
\* v occurs in no token of the registry: an occurrence of v in a text is
\* the real value itself, never part of a token
OutsideTokens(v) == \A t \in MapValues(registry) : ~Includes(t, v)

\* C1: the prompt submitted to the LLM (retrieved stored documents joined
\* with the rewritten question) contains no real value that is a key of the
\* registry when the prompt is submitted, also for values registered only
\* by documents ingested after a retrieved document was stored.  Stated for
\* the values that occur in no token.
C1_PromptHasNoRegisteredValue ==
  pc = "llm" =>
    \A v \in MapKeys(registry) :
      OutsideTokens(v) => ~Includes(query.promptText, v)

\* C5: after all tickets are ingested, every real value the detector
\* reported (with whatever provisional token, in however many tickets) has
\* exactly one registry entry, and every stored document in which it was
\* detected contains that entry's token.
C5_OneTokenInEveryDocument ==
  pc = "ready" =>
    \A i \in 1..Len(detected) : \A k \in 1..Len(detected[i]) :
      LET v == detected[i][k][2] IN
      /\ Cardinality({n \in 1..Len(registry) : registry[n][1] = v}) = 1
      /\ Includes(collection[i], MapGet(registry, v))

\* C9: at every point during and after ingestion, no document stored in
\* the collection contains a real value that is a key of the registry,
\* also when the detector reports the value only in a later document.
\* Stated for the values that occur in no token.
C9_NoRegisteredValueStored ==
  \A i \in 1..Len(collection) : \A v \in MapKeys(registry) :
    OutsideTokens(v) => ~Includes(collection[i], v)

\* v occurs in the question on its own, not only inside a longer
\* registered value that occurs there
Standalone(v, question) ==
  /\ Includes(question, v)
  /\ \A l \in MapKeys(registry) :
       ProperSubstring(v, l) => ~Includes(question, l)

\* C10: for a question containing a registered real value, the text sent
\* to the retrieval collaborator contains the value's token and not the
\* value; the LLM is called only after that rewrite and the retrieval; and
\* the answer returned is restoreText of the LLM output, in which no
\* registered token of the LLM output is left.  Stated for the values that
\* occur in the question on their own; their absence from the search text
\* is required of the values that occur in no token.
C10_QueryRewriteAndRestore ==
  /\ pc \in {"search", "llm"} =>
       /\ query.tokenizedQuery = replaceInText(registry, query.question)
       /\ \A v \in MapKeys(registry) :
            Standalone(v, query.question) =>
              /\ Includes(query.tokenizedQuery, MapGet(registry, v))
              /\ OutsideTokens(v) => ~Includes(query.tokenizedQuery, v)
  /\ pc = "llm" =>
       /\ query.docs \in SearchResults(collection)
       /\ query.promptText
            = PromptText(JoinDocs(query.docs), query.tokenizedQuery)
  /\ (pc = "ready" /\ query.answered) =>
       /\ query.final = restoreText(reverse, query.aiResponse)
       /\ \A t \in MapKeys(reverse) :
            Includes(query.aiResponse, t) => ~Includes(query.final, t)

\* m keeps every entry of the map old, at its place
Extends(m, old) ==
  /\ Len(m) >= Len(old)
  /\ \A i \in 1..Len(old) : m[i] = old[i]

\* C16: the registry only grows: no step removes or changes a pair of
\* either map or lowers a counter, and a step in which the detector call or
\* the storage call of a ticket fails leaves both maps and the counters as
\* they are, the registrations of the failing ticket included.
C16_RegistryOnlyGrows ==
  [][/\ Extends(registry', registry)
     /\ Extends(reverse', reverse)
     /\ \A t \in MapKeys(counters) :
          CounterOf(counters', t) >= CounterOf(counters, t)
     /\ (pc' = "failed" /\ pc # "failed") =>
          /\ pc \in {"tokenize", "add", "search", "llm"}
          /\ registry' = registry
          /\ reverse' = reverse
          /\ counters' = counters]_vars

\* the storage call of the second ticket failed after that ticket had
\* registered a value of its own: both tickets' registrations are there
C16_Witness ==
  /\ pc = "failed"
  /\ Len(tickets) = 2
  /\ Len(detected) = 2
  /\ Len(collection) = 1
  /\ Len(detected[1]) = 1
  /\ Len(detected[2]) = 1
  /\ detected[1][1][2] # detected[2][1][2]
  /\ MapKeys(registry) = {detected[1][1][2], detected[2][1][2]}

\* C17, as stated: a ticket whose detector or storage call failed is
\* retried and the tickets after it are ingested: when the run is over,
\* every ticket taken up is stored.
C17_EveryTicketIngested ==
  pc \in {"ready", "failed"} => Len(collection) = Len(tickets)

\* C17, amended: a failed detector or storage call ends the run: the
\* rejection reaches the caller of main(), the ticket is neither retried
\* nor skipped, no later ticket is taken up and nothing more is stored; a
\* ticket leaves the detector call only to its storage call or to the
\* failure, and the storage call only stored or to the failure.
C17_FailureEndsTheRun ==
  [][/\ pc = "tokenize" => pc' \in {"add", "failed"}
     /\ pc = "add" =>
          \/ pc' = "failed" /\ collection' = collection
          \/ pc' = "loop" /\ collection' = Append(collection, pending)
     /\ pc = "failed" => UNCHANGED vars]_vars

\* the detector call of the second ticket failed: one ticket is stored, the
\* second is not, and the run is over
C17_Witness ==
  /\ pc = "failed"
  /\ Len(tickets) = 2
  /\ Len(detected) = 1
  /\ Len(collection) = 1
  /\ ~query.answered

\* the values of vs that occur in the question of q and are not
\* registered in reg occur in the search text, and in the prompt once it
\* is assembled
StaysLiteral(vs, reg, q, at) ==
  \A v \in vs :
    (Includes(q.question, v) /\ ~MapHas(reg, v)) =>
      /\ at \in {"search", "llm"} => Includes(q.tokenizedQuery, v)
      /\ at = "llm" => Includes(q.promptText, v)

\* no real value registered in reg occurs in text
FreeOfRegistered(reg, text) == \A k \in MapKeys(reg) : ~Includes(text, k)

Storing == {r \in Runs : runs[r].pc = "add"}

\* C15: in every state of every interleaving of runs that share the
\* registry, a real value has one token and a token one real value, the
\* reverse map is the inverse of the forward map, and a value detected by
\* two runs, under whatever provisional tokens, has a single entry: the
\* run registering it later got the token the earlier run created.
C15_NoDuplicateWhenInterleaved ==
  /\ OneToOne(registry)
  /\ OneToOne(reverse)
  /\ Pairs(reverse) = {<<p[2], p[1]>> : p \in Pairs(registry)}
  /\ \A r \in Storing : \A i \in 1..Len(runs[r].mapping) :
       LET v == runs[r].mapping[i][2] IN
       /\ Cardinality({n \in 1..Len(registry) : registry[n][1] = v}) = 1
       /\ Cardinality({n \in 1..Len(reverse) : reverse[n][2] = v}) = 1

\* both runs are between their detector call and their storage call, and
\* both detected the same value, under different provisional tokens
C15_Witness ==
  /\ Storing = Runs
  /\ \E i \in 1..Len(runs["A"].mapping), j \in 1..Len(runs["B"].mapping) :
       /\ runs["A"].mapping[i][2] = runs["B"].mapping[j][2]
       /\ runs["A"].mapping[i][1] # runs["B"].mapping[j][1]
  /\ registry # <<>>

\* the text run is about to store was computed from the original ticket
\* under a registry that held every pair of its mapping: the registry as it
\* was after some number of the registrations made so far
RewrittenAfterRegistering(run, reg) ==
  \E k \in 0..Len(reg) :
    LET then == SubSeq(reg, 1, k) IN
    /\ \A i \in 1..Len(run.mapping) : MapHas(then, run.mapping[i][2])
    /\ run.pending = replaceInText(then, run.ticket)

\* C19: per ticket the order is detector call, getOrCreate for every
\* detected pair, replaceInText on the original ticket, storage call: the
\* registry changes only in the step that takes a run from its detector
\* call to its storage call, the text handed to the storage call is the
\* original ticket rewritten under a registry holding every pair detected
\* in it, and exactly that text is stored, however the runs interleave.
C19_IngestionOrder ==
  [][/\ \A r \in Runs :
          /\ runs'[r].pc # runs[r].pc =>
               <<runs[r].pc, runs'[r].pc>>
                 \in {<<"loop", "tokenize">>, <<"tokenize", "add">>,
                      <<"add", "loop">>, <<"loop", "done">>}
          /\ runs'[r].pc = "add" =>
               RewrittenAfterRegistering(runs'[r], registry')
     /\ registry' # registry =>
          \E r \in Runs : runs[r].pc = "tokenize" /\ runs'[r].pc = "add"
     /\ collection' # collection =>
          \E r \in Runs :
            /\ runs[r].pc = "add"
            /\ runs'[r].pc = "loop"
            /\ collection' = Append(collection, runs[r].pending)]_vars

\* a run is about to store a text computed before the other run registered
\* a value that occurs in it
C19_Witness ==
  \E r \in Storing :
    /\ runs[r].mapping # <<>>
    /\ runs[r].pending # replaceInText(registry, runs[r].ticket)
    /\ RewrittenAfterRegistering(runs[r], registry)

(***************************************************************************)
(* Properties of Strategy B (specification SpecB).                         *)
(***************************************************************************)
\* C25: Strategy B is reversible: when the answer is detokenized, the
\* merged mapping gives every token of every retrieved document the real
\* value that token replaced in that document, also when two retrieved
\* documents use one token string for different values.
C25_MergedMappingRestores ==
  pc = "llm" =>
    \A i \in 1..Len(query.ids) :
      \A k \in 1..Len(MappingStore[query.ids[i]]) :
        LET token == MappingStore[query.ids[i]][k][1]
            realValue == MappingStore[query.ids[i]][k][2]
        IN  Includes(query.docs[i], token) =>
              /\ MapHas(query.mergedMapping, token)
              /\ MapGet(query.mergedMapping, token) = realValue

\* C26: the token put into the question for a known real value (the first
\* token the reverse lookup holds for it) is mapped back to that real value
\* by the merged mapping the answer is restored with, whichever documents
\* the search returns.
C26_QueryTokenMapsBack ==
  pc = "llm" =>
    \A n \in 1..Len(query.matched) :
      /\ MapHas(query.mergedMapping, query.matched[n][2])
      /\ MapGet(query.mergedMapping, query.matched[n][2])
           = query.matched[n][1]

(***************************************************************************)
(* Properties of the multi-turn chat (specification SpecChat).             *)
(***************************************************************************)
\* C27: after any sequence of turns, every token in a user entry of the
\* tokenized conversation history is mapped by the accumulated mapping to
\* the real value it replaced in the turn that produced the entry, also
\* when the detector uses a token string again for another value in a
\* later turn.
C27_AccumulatedMappingConsistent ==
  \A n \in 1..Len(chat.turnMappings) :
    \A k \in 1..Len(chat.turnMappings[n]) :
      LET token == chat.turnMappings[n][k][1]
          realValue == chat.turnMappings[n][k][2]
      IN  Includes(chat.conversationHistory[2 * n - 1], token) =>
            /\ MapHas(chat.accumulatedMapping, token)
            /\ MapGet(chat.accumulatedMapping, token) = realValue

(***************************************************************************)
(* Properties of the blindfoldProtect chain (specification SpecChain).     *)
(***************************************************************************)
\* C28: the answer of every chain invocation is detokenized with the
\* mapping of that invocation's own tokenize step, and mappingStore is
\* empty whenever no invocation is between its tokenize step and its
\* detokenize step, also when two invocations overlap.
C28_OwnMappingPerInvocation ==
  /\ \A i \in Invocations :
       chain.invocation[i].pc = "done" =>
         chain.invocation[i].restored
           = Detokenize(chain.invocation[i].answer,
                        chain.invocation[i].mapping)
  /\ (\A i \in Invocations : chain.invocation[i].pc # "llm")
       => chain.mappingStore = <<>>

(***************************************************************************)
(* Properties of the comparison program (specification SpecCli).           *)
(***************************************************************************)
\* the argument names strategy a, b or c, in either case
NamesStrategy(arg) ==
  arg \in { <<"a">>, <<"b">>, <<"c">>, <<"A">>, <<"B">>, <<"C">> }

\* the runner of the strategy an argument names
RunnerNamed(arg) ==
  CASE arg \in { <<"a">>, <<"A">> } -> "runStrategyA"
    [] arg \in { <<"b">>, <<"B">> } -> "runStrategyB"
    [] arg \in { <<"c">>, <<"C">> } -> "runStrategyC"

\* the strategies requested: all three when no argument is given
Requested(args) ==
  IF args = <<>> THEN << <<"a">>, <<"b">>, <<"c">> >> ELSE args

\* C29: when an argument is not one of a, b, c in either case, the program
\* exits with status 1 with no runner called and no client created;
\* otherwise the runners of the strategies named are called one after
\* another in the order given (all three when there is no argument), and
\* the summary is printed only after the last of more than one.
C29_ArgumentsValidated ==
  cli.pc # "start" =>
    IF \E k \in 1..Len(cli.args) : ~NamesStrategy(cli.args[k])
    THEN /\ cli.pc = "exited"
         /\ cli.exitCode = 1
         /\ cli.called = <<>>
         /\ ~cli.chroma
    ELSE LET requested == Requested(cli.args) IN
         /\ cli.pc \in {"running", "done", "failed"}
         /\ cli.i \in 1..Len(requested)
         /\ cli.called = [k \in 1..cli.i |-> RunnerNamed(requested[k])]
         /\ cli.pc = "done" => cli.i = Len(requested)
         /\ cli.summary = (cli.pc = "done" /\ Len(requested) > 1)

====
